---------------------------- MODULE Spec2Model ----------------------------
(***************************************************************************)
(* Reservations controller of the restaurant-reservation back end          *)
(* (src/back-end/src/reservations/reservations.controller.js): the         *)
(* validation middleware, the handlers and the middleware chains of        *)
(* module.exports, run against a store that stands for the reservations    *)
(* table behind reservations.service.js.                                   *)
(*                                                                         *)
(* Time is counted in seconds since the epoch (the code counts             *)
(* milliseconds; reservation instants are whole minutes).                  *)
(***************************************************************************)
EXTENDS Integers, Sequences, FiniteSets, TLC

VARIABLES
    store,   \* the reservations table: reservation_id -> stored record
    nextId,  \* the table's id sequence
    req,     \* the request handled by the last step
    res,     \* the response to it
    calls,   \* data-access calls made while handling it
    now,     \* Date.now(), in seconds
    zone,    \* the server process's time zone, hours east of UTC
    \* the Dashboard component in the browser
    mounted,            \* the component is rendered
    dashboardDate,      \* its date prop
    reservations,       \* useState([])
    reservationsError,  \* useState(null)
    effects,            \* the runs of the [date] effect, oldest first
    setCalls            \* calls of setReservations made so far

server == <<store, nextId, req, res, calls, now, zone>>
component == <<mounted, dashboardDate, reservations, reservationsError, effects, setCalls>>
vars == <<store, nextId, req, res, calls, now, zone,
          mounted, dashboardDate, reservations, reservationsError, effects,
          setCalls>>

---------------------------------------------------------------------------
(* Bounds of the model *)

\* reservation ids in use are 1..MaxId
MaxId == 2
\* the clock advances at most this many seconds past NowStart
MaxTicks == 2
\* the tables that are listed hold rows among 1..MaxRows
MaxRows == 3
\* the Dashboard's effect runs at most this many times
MaxEffects == 3

Ids == 1..MaxId

---------------------------------------------------------------------------
(* JavaScript values of a payload.                                         *)
(*   ordinary strings            TLA+ strings                              *)
(*   reservation_time            [type, chars]: the characters, in order   *)
(*   reservation_date            [form, y, m, d]: "YYYY-MM-DD", or a text  *)
(*                               Date.parse cannot read                    *)
(*   people                      [type, n]                                 *)
(* A payload (req.body.data) is a function from its keys to their values;  *)
(* req.body always holds a data object.                                    *)

Str(chars) == [type |-> "string", chars |-> chars]
\* a JSON number in reservation_time, by its decimal digits
NumChars(chars) == [type |-> "number", chars |-> chars]

Ymd(y, m, d) == [form |-> "ymd", y |-> y, m |-> m, d |-> d]
\* the empty string
EmptyDate == [form |-> "empty", y |-> 0, m |-> 0, d |-> 0]
\* a string that is no date, such as "tomorrow"
TextDate == [form |-> "text", y |-> 0, m |-> 0, d |-> 0]

Num(n) == [type |-> "number", n |-> n]
\* a numeric-looking string, such as "2"
NumStr(n) == [type |-> "string", n |-> n]

DigitChars == <<"0", "1", "2", "3", "4", "5", "6", "7", "8", "9">>
IsDigit(c) == \E i \in 1..10 : DigitChars[i] = c
DigitVal(c) == (CHOOSE i \in 1..10 : DigitChars[i] = c) - 1

\* { ...a, ...b }
Merge(a, b) ==
    [k \in DOMAIN a \cup DOMAIN b |-> IF k \in DOMAIN b THEN b[k] ELSE a[k]]

\* `${status}` of a status value, or of undefined when the key is absent
StatusText(data) == IF "status" \in DOMAIN data THEN data.status ELSE "undefined"

---------------------------------------------------------------------------
(* Outcomes of a middleware step *)

\* next()
Pass == [outcome |-> "next", status |-> 0, message |-> ""]
\* next({ status, message })
Fail(status, message) == [outcome |-> "error", status |-> status, message |-> message]
\* an exception thrown inside the step: the error handler answers 500
Throw(message) == [outcome |-> "throw", status |-> 500, message |-> message]

---------------------------------------------------------------------------
(* Date arithmetic behind Date.parse and Date.prototype.getDay *)

\* days from 1970-01-01 to the civil date y-m-d
DaysFromCivil(y, m, d) ==
    LET yy  == IF m <= 2 THEN y - 1 ELSE y
        era == yy \div 400
        yoe == yy - era * 400
        mp  == IF m > 2 THEN m - 3 ELSE m + 9
        doy == (153 * mp + 2) \div 5 + d - 1
        doe == yoe * 365 + yoe \div 4 - yoe \div 100 + doy
    IN  era * 146097 + doe - 719468

\* a JavaScript number: NaN, or an integer (a time value is in seconds)
NaN == [nan |-> TRUE, t |-> 0]
Finite(t) == [nan |-> FALSE, t |-> t]

\* a < b on numbers: false when either is NaN
Less(a, b) == ~a.nan /\ ~b.nan /\ a.t < b.t

\* the offset of the zone abbreviation PST: UTC-8
PSTOffset == 8 * 3600

\* Date.parse(reservation_date)
DateParse(date) ==
    IF date.form = "ymd"
    THEN Finite(DaysFromCivil(date.y, date.m, date.d) * 86400)
    ELSE NaN

\* Date.parse(`${reservation_date} PST`)
DateParsePST(date) ==
    IF date.form = "ymd"
    THEN Finite(DaysFromCivil(date.y, date.m, date.d) * 86400 + PSTOffset)
    ELSE NaN

\* new Date(timestamp).getDay() in the process's zone z: 0 is Sunday;
\* NaN for an invalid date (here -1, which equals no weekday)
GetDay(ts, z) ==
    IF ts.nan THEN -1
    ELSE (((ts.t + z * 3600) \div 86400) + 4) % 7


---------------------------------------------------------------------------
(* Validation middleware *)

VALID_PROPERTIES ==
    <<"reservation_id", "first_name", "last_name", "mobile_number",
      "reservation_date", "reservation_time", "people", "status",
      "created_at", "updated_at">>

REQUIRED_PROPERTIES ==
    <<"first_name", "last_name", "mobile_number", "reservation_date",
      "reservation_time", "people">>

\* Object.keys(data) lists the keys in the order the payload gives them;
\* payloads give their keys in this order
KeyOrder ==
    <<"reservation_id", "first_name", "last_name", "mobile_number",
      "reservation_date", "reservation_time", "people", "status",
      "created_at", "updated_at", "notes", "table_id">>

Includes(seq, x) == \E i \in 1..Len(seq) : seq[i] = x

\* Object.keys(data).filter(keep)
RECURSIVE KeysFrom(_, _, _)
KeysFrom(data, i, valid) ==
    IF i > Len(KeyOrder) THEN <<>>
    ELSE (IF KeyOrder[i] \in DOMAIN data /\ ~Includes(valid, KeyOrder[i])
          THEN <<KeyOrder[i]>> ELSE <<>>) \o KeysFrom(data, i + 1, valid)

\* fields.join(", ")
RECURSIVE Join(_)
Join(fields) ==
    IF Len(fields) = 0 THEN ""
    ELSE IF Len(fields) = 1 THEN fields[1]
    ELSE fields[1] \o ", " \o Join(Tail(fields))

\* hasOnlyValidProperties that names only the first offending key
hasOnlyValidPropertiesFirstOnly(data) ==
    LET invalidFields == KeysFrom(data, 1, VALID_PROPERTIES)
    IN  IF Len(invalidFields) > 0
        THEN Fail(400, "Invalid field(s): " \o invalidFields[1])
        ELSE Pass

hasOnlyValidProperties(data) ==
    LET invalidFields == KeysFrom(data, 1, VALID_PROPERTIES)
    IN  IF Len(invalidFields) > 0
        THEN Fail(400, "Invalid field(s): " \o Join(invalidFields))
        ELSE Pass

\* !data[property]: the key is absent, or its value is "", 0 or null
Falsy(data, property) ==
    IF property \notin DOMAIN data THEN TRUE
    ELSE IF property \in {"first_name", "last_name", "mobile_number"}
         THEN data[property] = ""
    ELSE IF property = "reservation_date" THEN data[property].form = "empty"
    ELSE IF property = "reservation_time"
         THEN \/ data[property].type = "string" /\ data[property].chars = <<>>
              \/ data[property].type = "number" /\ data[property].chars = <<"0">>
    ELSE IF property = "people"
         THEN data[property].type = "number" /\ data[property].n = 0
    ELSE FALSE

\* the required properties that are missing or empty, in order
RECURSIVE MissingFrom(_, _)
MissingFrom(data, i) ==
    IF i > Len(REQUIRED_PROPERTIES) THEN <<>>
    ELSE (IF Falsy(data, REQUIRED_PROPERTIES[i])
          THEN <<REQUIRED_PROPERTIES[i]>> ELSE <<>>) \o MissingFrom(data, i + 1)

\* hasProperties(...): rejects with a message listing the missing fields
hasRequiredProperties(data) ==
    LET missing == MissingFrom(data, 1)
    IN  IF Len(missing) = 0 THEN Pass
        ELSE Fail(400, "Missing required field(s): " \o Join(missing))

\* if 'status' is present and truthy, it must equal "booked"
statusIsBooked(data) ==
    IF "status" \notin DOMAIN data \/ data.status = "" THEN Pass
    ELSE IF data.status = "booked" THEN Pass
    ELSE Fail(400, "The reservation status is " \o data.status \o ".")

\* isNaN(Date.parse(reservation_date)) == false
reservationDateIsValid(reservation_date) == ~DateParse(reservation_date).nan

\* /^(0[0-9]|1[0-9]|2[0-3]):[0-5][0-9]$/ on the characters of a string
reservationTimeIsValid(reservation_time) ==
    LET c == reservation_time.chars
    IN  /\ Len(c) = 5
        /\ \/ c[1] \in {"0", "1"} /\ IsDigit(c[2])
           \/ c[1] = "2" /\ c[2] \in {"0", "1", "2", "3"}
        /\ c[3] = ":"
        /\ c[4] \in {"0", "1", "2", "3", "4", "5"}
        /\ IsDigit(c[5])

reservationDateIsTuesday(reservation_date, z) ==
    GetDay(DateParsePST(reservation_date), z) = 2

\* the clock reading of an HH:MM string, in seconds after midnight
ClockSeconds(c) ==
    (DigitVal(c[1]) * 10 + DigitVal(c[2])) * 3600
        + (DigitVal(c[4]) * 10 + DigitVal(c[5])) * 60

\* Date.parse(`${reservation_date} ${reservation_time} PST`), for the times
\* the shape check lets through
DateTimeParsePST(date, time) ==
    IF date.form = "ymd" /\ reservationTimeIsValid(time)
    THEN Finite(DaysFromCivil(date.y, date.m, date.d) * 86400
              + ClockSeconds(time.chars) + PSTOffset)
    ELSE NaN

\* reservationNotInTheFuture with <= for <
reservationNotInTheFutureOrNow(reservation_date, reservation_time, t) ==
    ~Less(Finite(t), DateTimeParsePST(reservation_date, reservation_time))

reservationNotInTheFuture(reservation_date, reservation_time, t) ==
    Less(DateTimeParsePST(reservation_date, reservation_time), Finite(t))

\* s.replace(":", ""): the first colon removed
RECURSIVE RemoveFirstColon(_)
RemoveFirstColon(c) ==
    IF Len(c) = 0 THEN <<>>
    ELSE IF Head(c) = ":" THEN Tail(c)
    ELSE <<Head(c)>> \o RemoveFirstColon(Tail(c))

\* s.slice(0, 4)
Slice4(c) == SubSeq(c, 1, IF Len(c) < 4 THEN Len(c) ELSE 4)

\* Number(s) of a string of decimal digits ("" is 0); NaN for other strings
RECURSIVE DigitsValue(_)
DigitsValue(c) ==
    IF Len(c) = 0 THEN 0
    ELSE DigitsValue(SubSeq(c, 1, Len(c) - 1)) * 10 + DigitVal(c[Len(c)])

ToNumber(c) ==
    IF \A i \in 1..Len(c) : IsDigit(c[i]) THEN Finite(DigitsValue(c)) ELSE NaN

\* reservationTimeNotAllowed with >= 2130 for > 2130
reservationTimeNotAllowedExclusive(reservation_time) ==
    LET reservationTime == ToNumber(Slice4(RemoveFirstColon(reservation_time.chars)))
    IN  Less(reservationTime, Finite(1030)) \/ ~Less(reservationTime, Finite(2130))

\* the time is NOT between 10:30 and 21:30
reservationTimeNotAllowed(reservation_time) ==
    LET reservationTime == ToNumber(Slice4(RemoveFirstColon(reservation_time.chars)))
    IN  Less(reservationTime, Finite(1030)) \/ Less(Finite(2130), reservationTime)

\* the names appended to "Invalid input(s):"
InvalidInputs(data) ==
    (IF data.people.type # "number" THEN " people" ELSE "")
    \o (IF ~reservationDateIsValid(data.reservation_date)
        THEN " reservation_date" ELSE "")
    \o (IF ~reservationTimeIsValid(data.reservation_time)
        THEN " reservation_time" ELSE "")

hasValidInputs(data, t, z) ==
    LET invalidInputs == "Invalid input(s):" \o InvalidInputs(data)
    IN  \* reservation_time.match of a value that is no string
    IF data.reservation_time.type # "string"
    THEN Throw("reservation_time.match is not a function")
    ELSE IF invalidInputs # "Invalid input(s):"
    THEN Fail(400, invalidInputs)
    ELSE IF reservationDateIsTuesday(data.reservation_date, z)
    THEN Fail(400, "The restaurant is closed on Tuesdays.")
    ELSE IF reservationNotInTheFuture(data.reservation_date,
                                      data.reservation_time, t)
    THEN Fail(400, "Please enter future reservation date.")
    ELSE IF reservationTimeNotAllowed(data.reservation_time)
    THEN Fail(400, "Please enter a time between 10:30 to 21:30.")
    ELSE Pass

\* statusIsNotFinished that guards "cancelled" in place of "finished"
statusIsNotFinishedOtherStatus(reservation) ==
    IF reservation.status # "cancelled" THEN Pass
    ELSE Fail(400, "A " \o reservation.status \o " reservation cannot be updated.")

\* the status of the resolved record is not "finished"
statusIsNotFinished(reservation) ==
    IF reservation.status # "finished" THEN Pass
    ELSE Fail(400, "A " \o reservation.status \o " reservation cannot be updated.")

\* hasValidStatusRequest that accepts any status that is given
hasValidStatusRequestAny(data) ==
    IF "status" \in DOMAIN data THEN Pass
    ELSE Fail(400, "The reservation status " \o StatusText(data) \o " is invalid.")

\* hasValidStatusRequest whose message leaves the value out
hasValidStatusRequestUnnamed(data) ==
    IF "status" \in DOMAIN data
       /\ data.status \in {"booked", "seated", "finished", "cancelled"}
    THEN Pass
    ELSE Fail(400, "The reservation status is invalid.")

hasValidStatusRequest(data) ==
    IF "status" \in DOMAIN data
       /\ data.status \in {"booked", "seated", "finished", "cancelled"}
    THEN Pass
    ELSE Fail(400, "The reservation status " \o StatusText(data) \o " is invalid.")


---------------------------------------------------------------------------
(* Middleware chains of module.exports: the outcome is that of the first   *)
(* step that does not call next()                                          *)

Then(first, rest) == IF first.outcome # "next" THEN first ELSE rest

\* hasOnlyValidProperties, hasRequiredProperties, hasValidInputs
inputChecks(data, t, z) ==
    Then(hasOnlyValidProperties(data),
         Then(hasRequiredProperties(data), hasValidInputs(data, t, z)))

\* the steps of the create chain before the handler
createChecks(data, t, z) == Then(inputChecks(data, t, z), statusIsBooked(data))

\* the steps of the updateStatus chain between reservationExists and the handler
statusChecks(reservation, data) ==
    Then(statusIsNotFinished(reservation), hasValidStatusRequest(data))

---------------------------------------------------------------------------
(* Responses *)

NoRecord == [k \in {} |-> ""]

\* the error handler: { error: message } with the error's status
ErrorResponse(v) ==
    [status |-> v.status, error |-> v.message, hasData |-> FALSE, data |-> NoRecord]
\* res.status(status).json({ data })
DataResponse(status, data) ==
    [status |-> status, error |-> "", hasData |-> TRUE, data |-> data]
\* res.json({ data: undefined }) and res.sendStatus(204)
EmptyResponse(status) ==
    [status |-> status, error |-> "", hasData |-> FALSE, data |-> NoRecord]

NoCalls ==
    [read |-> 0, create |-> 0, update |-> 0, delete |-> 0,
     list |-> 0, listByDate |-> 0, listByMobileNumber |-> 0]

\* a request, with the time at which it is handled
Request(op, id, data) == [op |-> op, id |-> id, data |-> data, at |-> now]

notFound(id) ==
    Fail(404, "Reservation ID " \o ToString(id) \o " does not exist.")

---------------------------------------------------------------------------
(* Requests *)

\* POST /reservations
Create(data) ==
    /\ nextId <= MaxId
    /\ req' = Request("create", 0, data)
    /\ UNCHANGED <<now, zone>>
    /\ LET v == createChecks(data, now, zone)
           newReservation == Merge(data, [status |-> "booked"])
           \* the table gives the new row the next id of its sequence
           row == Merge(newReservation, [reservation_id |-> nextId])
       IN  IF v.outcome # "next"
           THEN /\ res' = ErrorResponse(v)
                /\ calls' = NoCalls
                /\ UNCHANGED <<store, nextId>>
           ELSE /\ calls' = [NoCalls EXCEPT !.create = 1]
                /\ nextId' = nextId + 1
                /\ store' = [i \in DOMAIN store \cup {nextId} |->
                                 IF i = nextId THEN row ELSE store[i]]
                /\ res' = DataResponse(201, row)

\* the update handler, shared by PUT /reservations/:id and .../status
update(reservation, data) ==
    LET updatedreservation == Merge(reservation, data)
        target == updatedreservation.reservation_id
    IN  /\ calls' = [NoCalls EXCEPT !.read = 1, !.update = 1]
        /\ IF target \in DOMAIN store
           THEN /\ store' = [store EXCEPT ![target] = updatedreservation]
                /\ res' = DataResponse(200, updatedreservation)
           ELSE /\ UNCHANGED store
                /\ res' = EmptyResponse(200)

\* the request ends at a step before the handler
Rejected(v, reads) ==
    /\ res' = ErrorResponse(v)
    /\ calls' = [NoCalls EXCEPT !.read = reads]
    /\ UNCHANGED store

\* GET /reservations/:reservation_id
Read(id) ==
    /\ req' = Request("read", id, NoRecord)
    /\ UNCHANGED <<nextId, now, zone>>
    /\ IF id \notin DOMAIN store
       THEN Rejected(notFound(id), 1)
       ELSE /\ res' = DataResponse(200, store[id])
            /\ calls' = [NoCalls EXCEPT !.read = 1]
            /\ UNCHANGED store

\* Update with the input checks placed before reservationExists
UpdateChecksInputsFirst(id, data) ==
    /\ req' = Request("update", id, data)
    /\ UNCHANGED <<nextId, now, zone>>
    /\ LET v == inputChecks(data, now, zone)
       IN  IF v.outcome # "next"
           THEN Rejected(v, 0)
           ELSE IF id \notin DOMAIN store
                THEN Rejected(notFound(id), 1)
                ELSE update(store[id], data)

\* PUT /reservations/:reservation_id
Update(id, data) ==
    /\ req' = Request("update", id, data)
    /\ UNCHANGED <<nextId, now, zone>>
    /\ IF id \notin DOMAIN store
       THEN Rejected(notFound(id), 1)
       ELSE LET v == inputChecks(data, now, zone)
            IN  IF v.outcome # "next"
                THEN Rejected(v, 1)
                ELSE update(store[id], data)

\* PUT /reservations/:reservation_id/status
UpdateStatus(id, data) ==
    /\ req' = Request("updateStatus", id, data)
    /\ UNCHANGED <<nextId, now, zone>>
    /\ IF id \notin DOMAIN store
       THEN Rejected(notFound(id), 1)
       ELSE LET v == statusChecks(store[id], data)
            IN  IF v.outcome # "next"
                THEN Rejected(v, 1)
                ELSE update(store[id], data)

\* DELETE /reservations/:reservation_id
Delete(id) ==
    /\ req' = Request("delete", id, NoRecord)
    /\ UNCHANGED <<nextId, now, zone>>
    /\ IF id \notin DOMAIN store
       THEN Rejected(notFound(id), 1)
       ELSE /\ store' = [i \in DOMAIN store \ {id} |-> store[i]]
            /\ calls' = [NoCalls EXCEPT !.read = 1, !.delete = 1]
            /\ res' = EmptyResponse(204)

---------------------------------------------------------------------------
(* Payloads of the requests *)

\* a payload from a choice per key: <<>> leaves the key out, <<v>> gives it
MakeData(c) == [k \in {k \in DOMAIN c : Len(c[k]) > 0} |-> c[k][1]]

T1030 == Str(<<"1", "0", ":", "3", "0">>)
T2130 == Str(<<"2", "1", ":", "3", "0">>)

\* the date of the clock's start, a Wednesday; the Tuesday before it and
\* the Tuesday and Wednesday of the week after
Today == Ymd(2026, 11, 4)
PastTuesday == Ymd(2026, 11, 3)
PastMonday == Ymd(2026, 11, 2)
NextTuesday == Ymd(2026, 11, 10)
NextWednesday == Ymd(2026, 11, 11)

\* one second before 10:30 PST of Today
NowStart == DateTimeParsePST(Today, T1030).t - 1

Zones == {-8, 0}

Statuses == {"booked", "seated", "finished", "cancelled"}

\* the fields every payload of the store's requests gives, with valid values
Person(name) ==
    [first_name |-> <<name>>, last_name |-> <<"Lee">>,
     mobile_number |-> <<"555-0100">>, reservation_date |-> <<NextWednesday>>,
     reservation_time |-> <<T1030>>, people |-> <<Num(2)>>]

\* keys outside VALID_PROPERTIES added to a payload: one key on an otherwise
\* valid payload, and two keys on a payload that also lacks last_name and
\* gives people as a string
ExtraFields ==
    {[notes |-> <<"window">>],
     [notes |-> <<"window">>, table_id |-> <<Num(1)>>,
      last_name |-> <<>>, people |-> <<NumStr(2)>>]}

\* payloads of create requests (the client sends no reservation_id): valid
\* ones with each kind of status, one for a closed day, and ones with
\* extra fields
CreatePayloads ==
    {MakeData(Merge(Person(f), [status |-> s])) :
        f \in {"Ann", "Bob"}, s \in {<<>>, <<"">>, <<"booked">>, <<"seated">>}}
    \cup {MakeData(Merge(Person("Ann"), [reservation_date |-> <<NextTuesday>>]))}
    \cup {MakeData(Merge(Person("Ann"), x)) : x \in ExtraFields}

\* payloads of full-record updates (the client sends the record's
\* reservation_id; another client may send another id)
UpdatePayloads ==
    {MakeData(Merge(Person(f), [reservation_id |-> <<r>>, status |-> s])) :
        f \in {"Ann", "Bob"}, r \in Ids,
        s \in {<<>>, <<"booked">>, <<"bogus">>}}
    \cup {MakeData(Merge(Person("Ann"), [reservation_id |-> <<r>>,
                                         people |-> <<NumStr(2)>>])) : r \in Ids}
    \cup {MakeData(Merge(Merge(Person("Ann"), [reservation_id |-> <<r>>]), x)) :
              r \in Ids, x \in ExtraFields}

\* payloads of status requests
StatusPayloads ==
    {MakeData([reservation_id |-> <<r>>, status |-> s]) :
        r \in Ids, s \in {<<>>, <<"bogus">>} \cup {<<x>> : x \in Statuses}}

---------------------------------------------------------------------------
(* The server: requests are handled one at a time against the store *)

\* no Dashboard is rendered
NotRendered ==
    /\ mounted = FALSE
    /\ dashboardDate = EmptyDate
    /\ reservations = <<>>
    /\ reservationsError = "null"
    /\ effects = <<>>
    /\ setCalls = 0

Init ==
    /\ now = NowStart
    /\ store = NoRecord
    /\ nextId = 1
    /\ req = Request("none", 0, NoRecord)
    /\ res = EmptyResponse(0)
    /\ calls = NoCalls
    /\ zone = 0
    /\ NotRendered

Next ==
    \/ \E data \in CreatePayloads : Create(data) /\ UNCHANGED component
    \/ \E id \in Ids : Read(id) /\ UNCHANGED component
    \/ \E id \in Ids, data \in UpdatePayloads :
          Update(id, data) /\ UNCHANGED component
    \/ \E id \in Ids, data \in StatusPayloads :
          UpdateStatus(id, data) /\ UNCHANGED component
    \/ \E id \in Ids : Delete(id) /\ UNCHANGED component

Spec == Init /\ [][Next]_vars

---------------------------------------------------------------------------
(* The input checks on their own: hasOnlyValidProperties,                  *)
(* hasRequiredProperties and hasValidInputs, the steps create and update   *)
(* share, applied to one payload after another while the clock advances    *)

T1029 == Str(<<"1", "0", ":", "2", "9">>)
T2131 == Str(<<"2", "1", ":", "3", "1">>)
T2500 == Str(<<"2", "5", ":", "0", "0">>)
T1060 == Str(<<"1", "0", ":", "6", "0">>)
T930 == Str(<<"9", ":", "3", "0">>)
T0930 == Str(<<"0", "9", ":", "3", "0">>)
T2359 == Str(<<"2", "3", ":", "5", "9">>)
T103000 == Str(<<"1", "0", ":", "3", "0", ":", "0", "0">>)
\* the JSON number 1030
N1030 == NumChars(<<"1", "0", "3", "0">>)

InputDates == {PastMonday, PastTuesday, Today, NextTuesday, NextWednesday, TextDate}

InputTimes ==
    {T1030, T2130, T1029, T2131, T2500, T1060, T930, T0930, T2359, T103000, N1030}

InputPeople == {Num(2), NumStr(2)}

\* payloads with every required field, and some without
InputPayloads ==
    {MakeData(Merge(Person("Ann"),
                    [reservation_date |-> <<d>>, reservation_time |-> <<t>>,
                     people |-> <<p>>])) :
        d \in InputDates, t \in InputTimes, p \in InputPeople}
    \cup {MakeData(Merge(Person("Ann"), [last_name |-> l, people |-> p,
                                         reservation_date |-> <<d>>])) :
             l \in {<<>>, <<"">>}, p \in {<<>>, <<Num(0)>>, <<Num(2)>>},
             d \in {Today, EmptyDate}}

\* the outcome of the checks, as the response would carry it
Outcome(v) ==
    [status |-> v.status, error |-> v.message, hasData |-> FALSE, data |-> NoRecord]

Validate(data) ==
    /\ req' = Request("validate", 0, data)
    /\ res' = Outcome(inputChecks(data, now, zone))
    /\ UNCHANGED <<store, nextId, calls, now, zone>>
    /\ UNCHANGED component

\* Date.now() moves on between requests
Tick ==
    /\ now < NowStart + MaxTicks
    /\ now' = now + 1
    /\ UNCHANGED <<store, nextId, req, res, calls, zone>>
    /\ UNCHANGED component

InitInputs ==
    /\ now = NowStart
    /\ store = NoRecord
    /\ nextId = 1
    /\ req = Request("none", 0, NoRecord)
    /\ res = EmptyResponse(0)
    /\ calls = NoCalls
    /\ zone \in Zones
    /\ NotRendered

NextInputs ==
    \/ \E data \in InputPayloads : Validate(data)
    \/ Tick

SpecInputs == InitInputs /\ [][NextInputs]_vars

---------------------------------------------------------------------------
(* Properties of the store's requests, under Spec.  A step handles the     *)
(* request req' against the store of the state it starts in.               *)

Exists(id) == id \in DOMAIN store
Finished(id) == Exists(id) /\ store[id].status = "finished"
\* the error handler answered: the request was not accepted
RejectedWith(status) == res'.status = status /\ ~res'.hasData
OnRecord(id) == req'.op \in {"update", "updateStatus"} /\ req'.id = id

\* C1: once a stored reservation is finished, no full-record update and no
\* status update of it is accepted, and while it exists every field of the
\* record keeps its value.
C1_FinishedIsImmutable ==
    [][\A id \in Ids : Finished(id) =>
          /\ OnRecord(id) => res'.status >= 400
          /\ id \in DOMAIN store' => store'[id] = store[id]]_vars

\* C2: a status update of a finished reservation is rejected with 400,
\* whatever status it asks for; the data-access update is not called and
\* the store is unchanged.
C2_FinishedRejectsStatusUpdate ==
    [][\A id \in Ids : (req'.op = "updateStatus" /\ req'.id = id /\ Finished(id)) =>
          /\ RejectedWith(400)
          /\ calls'.update = 0
          /\ store' = store]_vars

\* a status update asking for "cancelled" was rejected for a finished record
C2_Witness ==
    /\ req.op = "updateStatus"
    /\ req.id \in DOMAIN store
    /\ store[req.id].status = "finished"
    /\ "status" \in DOMAIN req.data /\ req.data.status = "cancelled"
    /\ res.status = 400
    /\ calls.update = 0

\* a payload whose fields other than status are valid for a create
OtherwiseValid(data, t, z) ==
    createChecks([k \in DOMAIN data \ {"status"} |-> data[k]], t, z).outcome = "next"

\* C3: every record create inserts has status "booked"; an otherwise valid
\* payload carrying a status other than "booked" is rejected with 400 and
\* nothing is inserted; without a status, or with "booked", the create
\* succeeds and the stored record has status "booked".
C3_CreateStoresBooked ==
    [][req'.op = "create" =>
          /\ calls'.create = 1 => /\ res'.hasData
                                  /\ res'.data.status = "booked"
                                  /\ res'.data.reservation_id \in DOMAIN store'
                                  /\ store'[res'.data.reservation_id] = res'.data
          /\ OtherwiseValid(req'.data, now, zone) =>
                IF "status" \in DOMAIN req'.data /\ req'.data.status # "booked"
                THEN RejectedWith(400) /\ calls'.create = 0 /\ store' = store
                ELSE res'.status = 201 /\ calls'.create = 1]_vars

\* C4: the status of every stored reservation is one of booked, seated,
\* finished, cancelled.
C4_StoredStatusInEnum ==
    \A id \in DOMAIN store : store[id].status \in Statuses

OneWay ==
    {<<"booked", "seated">>, <<"seated", "finished">>,
     <<"booked", "cancelled">>, <<"seated", "cancelled">>}

\* C5: each change of a stored reservation's status is one of booked to
\* seated, seated to finished, booked to cancelled, seated to cancelled.
C5_OneDirectional ==
    [][\A id \in Ids : (Exists(id) /\ id \in DOMAIN store'
                          /\ store'[id].status # store[id].status) =>
          <<store[id].status, store'[id].status>> \in OneWay]_vars

\* C5, as the code enforces it: a status update is accepted only when the
\* reservation it addresses is not finished and the status asked for is one
\* of the four, and then the record the update names gets exactly that
\* status, whichever state it leaves (backward, or out of cancelled).
C5_StatusUpdateGuard ==
    [][\A id \in Ids : (req'.op = "updateStatus" /\ req'.id = id /\ Exists(id)) =>
          IF store[id].status # "finished"
             /\ "status" \in DOMAIN req'.data /\ req'.data.status \in Statuses
          THEN /\ res'.status = 200
               /\ calls'.update = 1
               /\ LET named == IF "reservation_id" \in DOMAIN req'.data
                               THEN req'.data.reservation_id ELSE id
                  IN  IF Exists(named)
                      THEN store'[named].status = req'.data.status
                      ELSE store' = store
          ELSE RejectedWith(400) /\ store' = store]_vars

\* an accepted status update set the record it names to "booked", a status
\* that no transition of the one-directional table leads to
C5_Witness ==
    /\ req.op = "updateStatus"
    /\ res.status = 200
    /\ req.id \in DOMAIN store
    /\ req.data.reservation_id = req.id
    /\ store[req.id].status = "booked"
    /\ nextId > MaxId

InvalidStatusMessage(data) ==
    "The reservation status "
        \o (IF "status" \in DOMAIN data THEN data.status ELSE "undefined")
        \o " is invalid."

AsksInvalidStatus(id) ==
    /\ req'.op = "updateStatus" /\ req'.id = id /\ Exists(id)
    /\ ("status" \in DOMAIN req'.data => req'.data.status \notin Statuses)

\* C6: a status update of an existing reservation that asks for a status
\* outside the four, or for none, is rejected with 400 and the message
\* naming the rejected value, and the store is unchanged.
C6_InvalidStatusNamed ==
    [][\A id \in Ids : AsksInvalidStatus(id) =>
          /\ RejectedWith(400)
          /\ res'.error = InvalidStatusMessage(req'.data)
          /\ store' = store]_vars

\* C6, for the reservations it holds of: those that are not finished (a
\* finished one is rejected with 400 before the requested status is read).
C6_InvalidStatusNamedUnlessFinished ==
    [][\A id \in Ids : AsksInvalidStatus(id) =>
          /\ RejectedWith(400)
          /\ store' = store
          /\ calls'.update = 0
          /\ store[id].status # "finished" =>
                res'.error = InvalidStatusMessage(req'.data)]_vars

\* a status update without a status was rejected, naming undefined
C6_Witness ==
    /\ req.op = "updateStatus"
    /\ req.id \in DOMAIN store
    /\ store[req.id].status = "seated"
    /\ "status" \notin DOMAIN req.data
    /\ res.status = 400
    /\ res.error = "The reservation status undefined is invalid."

ById == {"read", "update", "delete", "updateStatus"}

\* C7: in read, update, delete and updateStatus the id is resolved first and
\* once: a miss ends the request with 404 naming the id, before any other
\* step, and leaves the store unchanged; on a hit read returns the record.
C7_ExistenceGuardFirst ==
    [][\A id \in Ids : (req'.op \in ById /\ req'.id = id) =>
          /\ calls'.read = 1
          /\ ~Exists(id) =>
                /\ RejectedWith(404)
                /\ res'.error = "Reservation ID " \o ToString(id) \o " does not exist."
                /\ calls'.update = 0 /\ calls'.delete = 0
                /\ store' = store
          /\ (Exists(id) /\ req'.op = "read") =>
                /\ res'.status = 200 /\ res'.hasData
                /\ res'.data = store[id]
                /\ store' = store]_vars

\* a full-record update with an invalid payload met a missing id: 404
C7_Witness ==
    /\ req.op = "update"
    /\ req.id \notin DOMAIN store
    /\ req.data.people.type = "string"
    /\ res.status = 404
    /\ nextId > 1

---------------------------------------------------------------------------
(* Properties of the input checks, under SpecInputs.  The rules are stated *)
(* on the calendar date and the clock reading of the payload, in the       *)
(* restaurant's zone (PST).                                                *)

Checked == req.op = "validate" /\ hasRequiredProperties(req.data).outcome = "next"

PeopleIsNumber(data) == data.people.type = "number"
IsCalendarDate(data) == data.reservation_date.form = "ymd"
\* a string HH:MM with HH in 00-23 and MM in 00-59
IsClockTime(data) ==
    LET c == data.reservation_time.chars
    IN  /\ data.reservation_time.type = "string"
        /\ Len(c) = 5 /\ c[3] = ":"
        /\ \A i \in {1, 2, 4, 5} : IsDigit(c[i])
        /\ DigitVal(c[1]) * 10 + DigitVal(c[2]) <= 23
        /\ DigitVal(c[4]) * 10 + DigitVal(c[5]) <= 59
ShapeValid(data) == PeopleIsNumber(data) /\ IsCalendarDate(data) /\ IsClockTime(data)

DayNumber(data) ==
    DaysFromCivil(data.reservation_date.y, data.reservation_date.m,
                  data.reservation_date.d)
OnTuesday(data) == (DayNumber(data) + 4) % 7 = 2
MinuteOfDay(data) ==
    LET c == data.reservation_time.chars
    IN  (DigitVal(c[1]) * 10 + DigitVal(c[2])) * 60 + DigitVal(c[4]) * 10 + DigitVal(c[5])
\* the instant of the reservation: its date and time, at UTC-8
Instant(data) == DayNumber(data) * 86400 + MinuteOfDay(data) * 60 + 8 * 3600
InServiceHours(data) ==
    MinuteOfDay(data) >= 10 * 60 + 30 /\ MinuteOfDay(data) <= 21 * 60 + 30

Accepted == res.status = 0
RejectedAs(message) == res.status = 400 /\ res.error = message

ShapeMessage(data) ==
    "Invalid input(s):"
        \o (IF PeopleIsNumber(data) THEN "" ELSE " people")
        \o (IF IsCalendarDate(data) THEN "" ELSE " reservation_date")
        \o (IF IsClockTime(data) THEN "" ELSE " reservation_time")

\* C8: for a payload with the six required fields, a failure of shape
\* (people, reservation_date, reservation_time) is reported alone, in one
\* message naming every failing field; otherwise the first violated rule is
\* reported: closed Tuesday, then past, then outside service hours.
C8_ShapeThenRulesInOrder ==
    Checked =>
        IF ~ShapeValid(req.data) THEN RejectedAs(ShapeMessage(req.data))
        ELSE IF OnTuesday(req.data)
             THEN RejectedAs("The restaurant is closed on Tuesdays.")
        ELSE IF Instant(req.data) < req.at
             THEN RejectedAs("Please enter future reservation date.")
        ELSE IF ~InServiceHours(req.data)
             THEN RejectedAs("Please enter a time between 10:30 to 21:30.")
        ELSE Accepted

\* the statement of C8 holds of the payloads whose reservation_time is a
\* string: the payloads that break it are those whose time is no string
C8_ForStringTimes ==
    (Checked /\ req.data.reservation_time.type = "string")
        => C8_ShapeThenRulesInOrder

\* a date after the day on which the request is handled, not a Tuesday
FutureOpenDay(data) ==
    /\ IsCalendarDate(data)
    /\ ~OnTuesday(data)
    /\ DayNumber(data) * 86400 + 8 * 3600 > req.at

\* C9: on a future day that is no Tuesday, with the other fields valid, the
\* time is accepted exactly when it is a string HH:MM (00-23, 00-59) within
\* 10:30 to 21:30 inclusive; "10:30" and "21:30" are accepted, "10:29",
\* "21:31", "25:00", "10:60" and "9:30" are rejected with 400.
C9_TimeAcceptedInWindow ==
    (Checked /\ PeopleIsNumber(req.data) /\ FutureOpenDay(req.data)) =>
        /\ Accepted <=> (IsClockTime(req.data) /\ InServiceHours(req.data))
        /\ req.data.reservation_time \in {T1030, T2130} => Accepted
        /\ req.data.reservation_time \in {T1029, T2131, T2500, T1060, T930}
              => res.status = 400

\* "21:30" on a future Wednesday was accepted
C9_Witness ==
    /\ Checked /\ PeopleIsNumber(req.data) /\ FutureOpenDay(req.data)
    /\ req.data.reservation_time = T2130
    /\ Accepted

\* C10: a shape-valid reservation within service hours, not on a Tuesday,
\* is rejected as past when its instant is before the time of the check,
\* and accepted when it is one second after it or equal to it.
C10_PastBoundary ==
    (Checked /\ ShapeValid(req.data) /\ ~OnTuesday(req.data)
        /\ InServiceHours(req.data)) =>
        /\ Instant(req.data) < req.at
              => RejectedAs("Please enter future reservation date.")
        /\ Instant(req.data) = req.at + 1 => Accepted
        /\ Instant(req.data) = req.at => Accepted

\* a reservation whose instant is the time of the check was accepted
C10_Witness ==
    /\ Checked /\ ShapeValid(req.data) /\ ~OnTuesday(req.data)
    /\ InServiceHours(req.data)
    /\ Instant(req.data) = req.at
    /\ Accepted

---------------------------------------------------------------------------
(* Fields outside the allow-list (under Spec) *)

AllowList ==
    {"reservation_id", "first_name", "last_name", "mobile_number",
     "reservation_date", "reservation_time", "people", "status",
     "created_at", "updated_at"}

Extras(data) == DOMAIN data \ AllowList

\* the sequences that hold each key of the set once
Orderings(keys) ==
    {q \in [1..Cardinality(keys) -> keys] :
        \A i, j \in 1..Cardinality(keys) : q[i] = q[j] => i = j}

\* the single message names the keys of the set, all of them and no others
NamesExactly(message, keys) ==
    \E q \in Orderings(keys) : message = "Invalid field(s): " \o Join(q)

\* C11: a create, and an update addressed to an existing id, whose payload
\* holds at least one key outside the allow-list ends with 400 and one
\* message that names exactly those keys, whatever else is wrong with the
\* payload; no create or update call is made and the store is unchanged.
C11_ExtraFieldsRejected ==
    [][((req'.op = "create" \/ (req'.op = "update" /\ Exists(req'.id)))
            /\ Extras(req'.data) # {})
        => (/\ res'.status = 400
            /\ NamesExactly(res'.error, Extras(req'.data))
            /\ calls'.create = 0 /\ calls'.update = 0
            /\ store' = store /\ nextId' = nextId)]_vars

\* an update of an existing record that lacks last_name, gives people as a
\* string and holds two extra keys was rejected naming the two keys
C11_Witness ==
    /\ req.op = "update"
    /\ Exists(req.id)
    /\ Extras(req.data) = {"notes", "table_id"}
    /\ "last_name" \notin DOMAIN req.data
    /\ res.status = 400
    /\ res.error = "Invalid field(s): notes, table_id"

---------------------------------------------------------------------------
(* GET /reservations: the list handler and the three queries behind it.   *)
(* A query string (req.query) is a function from its keys to their        *)
(* values: date is a date value, mobile_number a string.                   *)

\* the characters of the phone strings in use
Chars(text) ==
    CASE text = "555-0100" -> <<"5", "5", "5", "-", "0", "1", "0", "0">>
      [] text = "555-0199" -> <<"5", "5", "5", "-", "0", "1", "9", "9">>
      [] text = "(555) 01" -> <<"(", "5", "5", "5", ")", " ", "0", "1">>
      [] text = "0100" -> <<"0", "1", "0", "0">>
      [] text = "99-" -> <<"9", "9", "-">>
      [] text = "" -> <<>>

\* the digits of a phone string, in order
DigitsOf(text) == SelectSeq(Chars(text), IsDigit)

Contains(hay, needle) ==
    \E i \in 0..(Len(hay) - Len(needle)) :
        SubSeq(hay, i + 1, i + Len(needle)) = needle

\* the rows of the table with the ids given, by ascending id
RECURSIVE Rows(_, _)
Rows(table, ids) ==
    IF ids = {} THEN <<>>
    ELSE LET first == CHOOSE i \in ids : \A j \in ids : i <= j
         IN  <<table[first]>> \o Rows(table, ids \ {first})

\* reservationsService.list()
listAll(table) == Rows(table, DOMAIN table)

\* reservationsService.listByDate(date)
listByDate(table, date) ==
    Rows(table, {i \in DOMAIN table : table[i].reservation_date = date})

\* reservationsService.listByMobileNumber(mobile_number)
listByMobileNumber(table, mobile_number) ==
    Rows(table, {i \in DOMAIN table :
                    Contains(DigitsOf(table[i].mobile_number),
                             DigitsOf(mobile_number))})

\* a query value that is undefined or ""
FalsyQuery(query, key) ==
    IF key \notin DOMAIN query THEN TRUE
    ELSE IF key = "date" THEN query[key].form = "empty"
    ELSE query[key] = ""

ListRequest(query) ==
    Merge(Request("list", 0, NoRecord), [query |-> query])

\* res.json({ data })
ListResponse(data) ==
    [status |-> 200, error |-> "", hasData |-> TRUE, data |-> data]

\* list with the mobile_number test placed before the date test
ListMobileNumberFirst(query) ==
    /\ req' = ListRequest(query)
    /\ UNCHANGED <<store, nextId, now, zone>>
    /\ IF ~FalsyQuery(query, "mobile_number")
       THEN /\ calls' = [NoCalls EXCEPT !.listByMobileNumber = 1]
            /\ res' = ListResponse(listByMobileNumber(store, query.mobile_number))
       ELSE IF ~FalsyQuery(query, "date")
       THEN /\ calls' = [NoCalls EXCEPT !.listByDate = 1]
            /\ res' = ListResponse(listByDate(store, query.date))
       ELSE /\ calls' = [NoCalls EXCEPT !.list = 1]
            /\ res' = ListResponse(listAll(store))

\* GET /reservations
List(query) ==
    /\ req' = ListRequest(query)
    /\ UNCHANGED <<store, nextId, now, zone>>
    /\ IF ~FalsyQuery(query, "date")
       THEN /\ calls' = [NoCalls EXCEPT !.listByDate = 1]
            /\ res' = ListResponse(listByDate(store, query.date))
       ELSE IF ~FalsyQuery(query, "mobile_number")
       THEN /\ calls' = [NoCalls EXCEPT !.listByMobileNumber = 1]
            /\ res' = ListResponse(listByMobileNumber(store, query.mobile_number))
       ELSE /\ calls' = [NoCalls EXCEPT !.list = 1]
            /\ res' = ListResponse(listAll(store))

NextThursday == Ymd(2026, 11, 12)

\* the row with the id given: two dates, two phone numbers, each status
Row(i) ==
    [reservation_id |-> i,
     first_name |-> IF i % 2 = 1 THEN "Ann" ELSE "Bob",
     last_name |-> "Lee",
     mobile_number |-> IF i % 3 = 0 THEN "555-0199" ELSE "555-0100",
     reservation_date |-> IF i % 2 = 1 THEN NextWednesday ELSE NextThursday,
     reservation_time |-> T1030,
     people |-> Num(2),
     status |-> CASE i % 4 = 1 -> "booked" [] i % 4 = 2 -> "finished"
                  [] i % 4 = 3 -> "seated" [] OTHER -> "cancelled"]

\* tables after creates, updates and deletes
Tables == {[i \in ids |-> Row(i)] : ids \in SUBSET (1..MaxRows)}

QueryDates == {<<>>, <<EmptyDate>>, <<Today>>, <<NextWednesday>>, <<NextThursday>>}
QueryMobileNumbers == {<<>>, <<"">>, <<"0100">>, <<"(555) 01">>, <<"99-">>}

Queries ==
    {MakeData([date |-> d, mobile_number |-> m]) :
        d \in QueryDates, m \in QueryMobileNumbers}

InitList ==
    /\ now = NowStart
    /\ store \in Tables
    /\ nextId = MaxRows + 1
    /\ req = Request("none", 0, NoRecord)
    /\ res = EmptyResponse(0)
    /\ calls = NoCalls
    /\ zone = 0
    /\ NotRendered

NextList == \E query \in Queries : List(query) /\ UNCHANGED component

SpecList == InitList /\ [][NextList]_vars

---------------------------------------------------------------------------
(* List dispatch (under SpecList) *)

Listed == req.op = "list"

Given(query, key) == key \in DOMAIN query

\* the parameter is given and its value is not the empty string
HasValue(query, key) ==
    /\ key \in DOMAIN query
    /\ IF key = "date" THEN query[key] # EmptyDate ELSE query[key] # ""

QueriesMade == calls.list + calls.listByDate + calls.listByMobileNumber

OnlyListQueries ==
    calls.read = 0 /\ calls.create = 0 /\ calls.update = 0 /\ calls.delete = 0

\* the response holds each record of the table once
EveryRecord ==
    /\ Len(res.data) = Cardinality(DOMAIN store)
    /\ \A id \in DOMAIN store : \E i \in 1..Len(res.data) : res.data[i] = store[id]

OnlyOfDate(date) ==
    \A i \in 1..Len(res.data) : res.data[i].reservation_date = date

\* C12 as stated: a list request makes exactly one query and returns its
\* result: the by-date query when a date parameter is given (the result
\* then holds only records of that date), the by-phone query when only a
\* mobile_number parameter is given, the list-all query when neither is
\* given (the result then holds every record).
C12_DispatchOnGiven ==
    Listed =>
        /\ QueriesMade = 1 /\ OnlyListQueries
        /\ res.status = 200
        /\ Given(req.query, "date") =>
               /\ calls.listByDate = 1
               /\ res.data = listByDate(store, req.query.date)
               /\ OnlyOfDate(req.query.date)
        /\ (~Given(req.query, "date") /\ Given(req.query, "mobile_number")) =>
               /\ calls.listByMobileNumber = 1
               /\ res.data = listByMobileNumber(store, req.query.mobile_number)
        /\ (~Given(req.query, "date") /\ ~Given(req.query, "mobile_number")) =>
               /\ calls.list = 1
               /\ EveryRecord

\* C12, amended: a list request makes exactly one query and returns its
\* result: the by-date query when the date parameter has a non-empty value,
\* with or without a mobile_number (the result then holds only records of
\* that date); the by-phone query when it has not and the mobile_number
\* parameter has a non-empty value; the list-all query otherwise, a
\* parameter with an empty value counting as not given (the result then
\* holds every record).
C12_DispatchOnValue ==
    Listed =>
        /\ QueriesMade = 1 /\ OnlyListQueries
        /\ res.status = 200
        /\ HasValue(req.query, "date") =>
               /\ calls.listByDate = 1
               /\ res.data = listByDate(store, req.query.date)
               /\ OnlyOfDate(req.query.date)
        /\ (~HasValue(req.query, "date") /\ HasValue(req.query, "mobile_number")) =>
               /\ calls.listByMobileNumber = 1
               /\ res.data = listByMobileNumber(store, req.query.mobile_number)
        /\ (~HasValue(req.query, "date") /\ ~HasValue(req.query, "mobile_number")) =>
               /\ calls.list = 1
               /\ EveryRecord

\* a request with both parameters, whose phone fragment matches no record,
\* was answered with the two records of its date out of three
C12_Witness ==
    /\ Listed
    /\ Cardinality(DOMAIN store) = 3
    /\ HasValue(req.query, "date") /\ req.query.date = NextWednesday
    /\ HasValue(req.query, "mobile_number") /\ req.query.mobile_number = "99-"
    /\ calls.listByDate = 1
    /\ Len(res.data) = 2

---------------------------------------------------------------------------
(* The Dashboard: the effect on [date] that loads the reservations.        *)
(* An entry of effects is one run of the effect: its date, whether its     *)
(* cleanup has run (abortController.abort()), and its listReservations     *)
(* call: "pending", "loaded", "failed" or "cancelled".                     *)

\* formatReservationDate and formatReservationTime of api.js, both the
\* default export of format-reservation-date: the YYYY-MM-DD of each
\* reservation_date
formatReservationDate(data) ==
    [i \in 1..Len(data) |->
        [data[i] EXCEPT !.reservation_date =
            Ymd(data[i].reservation_date.y, data[i].reservation_date.m,
                data[i].reservation_date.d)]]

\* the value fetchJson resolves to when the fetch is aborted
onCancel == <<>>

\* useEffect's callback: a new AbortController and a call of loadReservations
Effect(d) == [date |-> d, aborted |-> FALSE, request |-> "pending"]

\* the cleanup of the latest run: abortController.abort()
Cleanup(runs) == [runs EXCEPT ![Len(runs)].aborted = TRUE]

DashboardDates == {Today, NextWednesday, NextThursday}

\* the date prop changes: the cleanup of the last run, then a new run,
\* which calls setReservationsError(null) and starts its request
ChangeDate(d) ==
    /\ mounted
    /\ d # dashboardDate
    /\ Len(effects) < MaxEffects
    /\ dashboardDate' = d
    /\ effects' = Append(Cleanup(effects), Effect(d))
    /\ reservationsError' = "null"
    /\ UNCHANGED <<mounted, reservations, setCalls>>
    /\ UNCHANGED server

\* the component is removed: the cleanup of the last run
Unmount ==
    /\ mounted
    /\ mounted' = FALSE
    /\ effects' = Cleanup(effects)
    /\ UNCHANGED <<dashboardDate, reservations, reservationsError, setCalls>>
    /\ UNCHANGED server

\* a state setter called by run k; React drops the update of a component
\* that is no longer mounted
SetState(value, current) == IF mounted THEN value ELSE current

\* the request of run k is answered: GET /reservations?date=..., then
\* setReservations(data)
Loaded(k) ==
    /\ effects[k].request = "pending"
    /\ ~effects[k].aborted
    /\ List([date |-> effects[k].date])
    /\ reservations' =
          SetState(formatReservationDate(formatReservationDate(res'.data)),
                   reservations)
    /\ setCalls' = setCalls + 1
    /\ effects' = [effects EXCEPT ![k].request = "loaded"]
    /\ UNCHANGED <<mounted, dashboardDate, reservationsError>>

\* the fetch of run k fails, or the payload holds an error:
\* setReservationsError(error)
Failed(k) ==
    /\ effects[k].request = "pending"
    /\ ~effects[k].aborted
    /\ reservationsError' = SetState("error", reservationsError)
    /\ effects' = [effects EXCEPT ![k].request = "failed"]
    /\ UNCHANGED <<mounted, dashboardDate, reservations, setCalls>>
    /\ UNCHANGED server

\* the aborted fetch of run k rejects with an AbortError: fetchJson resolves
\* to onCancel and loadReservations calls setReservations with it
Cancelled(k) ==
    /\ effects[k].request = "pending"
    /\ effects[k].aborted
    /\ reservations' =
          SetState(formatReservationDate(formatReservationDate(onCancel)),
                   reservations)
    /\ setCalls' = setCalls + 1
    /\ effects' = [effects EXCEPT ![k].request = "cancelled"]
    /\ UNCHANGED <<mounted, dashboardDate, reservationsError>>
    /\ UNCHANGED server

\* the Dashboard has rendered for a date and its effect has run once
InitDashboard ==
    /\ now = NowStart
    /\ store = [i \in 1..MaxRows |-> Row(i)]
    /\ nextId = MaxRows + 1
    /\ req = Request("none", 0, NoRecord)
    /\ res = EmptyResponse(0)
    /\ calls = NoCalls
    /\ zone = 0
    /\ mounted = TRUE
    /\ dashboardDate \in DashboardDates
    /\ reservations = <<>>
    /\ reservationsError = "null"
    /\ effects = <<Effect(dashboardDate)>>
    /\ setCalls = 0

NextDashboard ==
    \/ \E d \in DashboardDates : ChangeDate(d)
    \/ Unmount
    \/ \E k \in 1..MaxEffects : k <= Len(effects) /\ Loaded(k)
    \/ \E k \in 1..MaxEffects : k <= Len(effects) /\ Failed(k)
    \/ \E k \in 1..MaxEffects : k <= Len(effects) /\ Cancelled(k)

SpecDashboard == InitDashboard /\ [][NextDashboard]_vars

---------------------------------------------------------------------------
(* Superseded requests of the Dashboard (under SpecDashboard) *)

Latest == Len(effects)

\* what the server lists for the date, as listReservations returns it
ResultFor(d) ==
    formatReservationDate(formatReservationDate(listByDate(store, d)))

\* every run but the latest has had its cleanup: its request is aborted
SupersededAborted == \A k \in 1..(Latest - 1) : effects[k].aborted

\* once the request of the latest run has completed, the list shown is its
\* result
LatestResultShown ==
    (mounted /\ effects[Latest].request = "loaded")
        => reservations = ResultFor(effects[Latest].date)

\* the request of run k completes in this step
Completes(k) ==
    /\ k <= Len(effects)
    /\ effects[k].request = "pending"
    /\ effects'[k].request # "pending"

\* C13: when the date changes while a request is in flight, that request
\* is aborted; once the request of the latest date has completed, the
\* reservations state holds its result under every order of completion;
\* and the completion of a request whose cleanup has run makes no call of
\* setReservations.
C13_SupersededNeverSetsState ==
    [][/\ SupersededAborted'
       /\ LatestResultShown'
       /\ \A k \in 1..MaxEffects :
             (Completes(k) /\ effects[k].aborted) => setCalls' = setCalls]_vars

=============================================================================
